---- MODULE Spec2Model ----
(***************************************************************************)
(* Model of the video sequence generator page (component Index):            *)
(* the clip catalog, the randomized sequence generator, the readiness gate  *)
(* of the FFmpeg engine and the export pipeline (single export and batch).  *)
(*                                                                          *)
(* JavaScript runs every handler to its next await without interruption,    *)
(* so one action is one handler run from its start (or from the await it    *)
(* resumes at) to its next await or its end; a handler suspended at an      *)
(* await is part of the state (uploads, tasks).  The draw loop of           *)
(* generateSequences never awaits; it is unrolled one iteration per step    *)
(* only so that its non-termination can be observed, and no other action    *)
(* is enabled while it runs.                                                *)
(***************************************************************************)
EXTENDS Integers, Sequences, FiniteSets, TLC

VARIABLES
    ffmpegLoading,     \* useState(true): engine initialization in progress
    ffmpeg,            \* useState(null): the engine handle, "null" or "instance"
    availableClips,    \* useState([]): the catalog, a sequence of VideoClip
    sequences,         \* useState([]): the sequence list
    loading,           \* useState(false): the busy flag
    nextClipId,        \* stands for the fresh `clip-${Date.now()}-${Math.random()}` ids
    uploads,           \* the handleFileUpload calls suspended at `await promise`
    genpc,             \* "idle", or "loop" while generateSequences is in its while loop
    newSequences,      \* local of generateSequences
    usedCombinations,  \* local of generateSequences
    toast,             \* the last toast.error shown (toast.success is not modelled)
    tasks,             \* the exportSequence / downloadAllSequences calls suspended at an await
    fs,                \* the engine's working area (ffmpeg.writeFile / readFile / deleteFile)
    exportError        \* the last error logged by console.error('Export error:', error)

genVars == <<genpc, newSequences, usedCombinations>>
exportVars == <<tasks, fs, exportError>>
uploadVars == <<nextClipId, uploads>>

vars == <<ffmpegLoading, ffmpeg, availableClips, sequences, loading, nextClipId,
          uploads, genpc, newSequences, usedCombinations, toast,
          tasks, fs, exportError>>

-----------------------------------------------------------------------------
(* Bounds of the model *)

MaxUploads == 2
MaxDuration == 2
MaxTasks == 2
GenMaxClips == 4
RunMaxClips == 7
LoopLeft == 2
LoopStarts == 6

(* Program constants *)

MaxSequences == 10
MaxSellingPoints == 3

-----------------------------------------------------------------------------
(* Data *)

ClipTypes == {"hook", "selling-point", "cta"}

NoFile == 0

\* interface VideoClip; `file` holds the id of the uploaded File, NoFile when absent.
\* `name` only feeds toasts and error texts and is not modelled.
VideoClip(id, type, duration, file) ==
    [id |-> id, type |-> type, duration |-> duration, file |-> file]

\* interface Sequence
NoSequence == [id |-> 0, clips |-> <<>>, duration |-> 0]

\* The working area: inputN.mp4 holds the bytes of a File (its id, NoFile when the
\* entry is absent), list.txt the indices of the inputs it lists, output.mp4 the
\* ids of the files it concatenates.
MaxClipsPerSequence == MaxSellingPoints + 2

Absent == [present |-> FALSE, data |-> <<>>]
Present(d) == [present |-> TRUE, data |-> d]

EmptyFs ==
    [input |-> [n \in 0..(MaxClipsPerSequence - 1) |-> NoFile],
     list |-> Absent,
     output |-> Absent]

\* One call of exportSequence (kind "single") or downloadAllSequences (kind
\* "batch") suspended at an await; pc names the call it waits for: "fetch" is
\* fetchFile(clip.file), "input" ffmpeg.writeFile(`input${i}.mp4`), "list"
\* ffmpeg.writeFile('list.txt'), "exec" ffmpeg.exec, "read" ffmpeg.readFile,
\* "deleteInput", "deleteList" and "deleteOutput" the ffmpeg.deleteFile calls and
\* "zip" zip.generateAsync.
\* seqs is the sequence list the call works on, idx the `index` argument of the
\* running exportSequence (-1 for undefined), i its loop counter, list the
\* listFileContent built so far, zip the entries put into the JSZip archive and
\* execs the ids of the sequences the call has run ffmpeg.exec for.
FreeTask ==
    [pc |-> "free", kind |-> "none", seqs |-> <<>>, idx |-> -1, i |-> 0,
     list |-> <<>>, zip |-> <<>>, execs |-> <<>>]

Range(s) == {s[i] : i \in 1..Len(s)}

SumDurationsHookAndCta(clips) ==
    IF clips = <<>> THEN 0 ELSE clips[1].duration + clips[Len(clips)].duration

\* Array.prototype.reduce((acc, clip) => acc + clip.duration, 0)
RECURSIVE SumDurations(_)
SumDurations(clips) ==
    IF clips = <<>> THEN 0 ELSE Head(clips).duration + SumDurations(Tail(clips))

\* Array.prototype.sort() on the ids of the chosen selling-points
RECURSIVE Insert(_, _)
Insert(x, s) ==
    IF s = <<>> THEN <<x>>
    ELSE IF x <= Head(s) THEN <<x>> \o s
    ELSE <<Head(s)>> \o Insert(x, Tail(s))

RECURSIVE SortIds(_)
SortIds(s) == IF s = <<>> THEN <<>> ELSE Insert(Head(s), SortIds(Tail(s)))

RECURSIVE Pow2(_)
Pow2(n) == IF n = 0 THEN 1 ELSE 2 * Pow2(n - 1)

Min(a, b) == IF a <= b THEN a ELSE b

\* The orders that [...a].sort(() => Math.random() - 0.5) can leave n elements in
Perms(n) == {p \in [1..n -> 1..n] : \A i, j \in 1..n : p[i] = p[j] => i = j}

-----------------------------------------------------------------------------
(* Readiness gate *)

EngineReady == ~ffmpegLoading /\ ffmpeg # "null"

Init ==
    /\ ffmpegLoading = TRUE
    /\ ffmpeg = "null"
    /\ availableClips = <<>>
    /\ sequences = <<>>
    /\ loading = FALSE
    /\ nextClipId = 1
    /\ uploads = <<>>
    /\ genpc = "idle"
    /\ newSequences = <<>>
    /\ usedCombinations = {}
    /\ toast = "none"
    /\ tasks = [t \in 1..MaxTasks |-> FreeTask]
    /\ fs = EmptyFs
    /\ exportError = "none"

\* Every handler runs only between the synchronous runs of the others.
Idle == genpc = "idle"

\* a second initFFmpeg run whose load() resolves after the first one failed
InitFFmpegLoadedOnRetry ==
    /\ Idle
    /\ ffmpeg = "null"
    /\ ffmpeg' = "instance"
    /\ ffmpegLoading' = FALSE
    /\ UNCHANGED toast
    /\ UNCHANGED <<availableClips, sequences, loading, uploadVars,
                   genpc, newSequences, usedCombinations, exportVars>>

\* initFFmpeg: ffmpegInstance.load() resolves
InitFFmpegLoaded ==
    /\ Idle
    /\ ffmpegLoading /\ ffmpeg = "null"
    /\ ffmpeg' = "instance"
    /\ ffmpegLoading' = FALSE
    /\ UNCHANGED toast
    /\ UNCHANGED <<availableClips, sequences, loading, uploadVars,
                   genpc, newSequences, usedCombinations, exportVars>>

\* initFFmpeg: ffmpegInstance.load() rejects
InitFFmpegFailed ==
    /\ Idle
    /\ ffmpegLoading /\ ffmpeg = "null"
    /\ ffmpegLoading' = FALSE
    /\ toast' = "Failed to initialize video processing"
    /\ UNCHANGED <<ffmpeg, availableClips, sequences, loading, uploadVars,
                   genpc, newSequences, usedCombinations, exportVars>>

-----------------------------------------------------------------------------
(* Clip catalog *)

\* A handleFileUpload call is its files still to be probed, each file standing
\* for detectClipType(file.name); the call is suspended at `await promise` for
\* the first of them.
RECURSIVE PendingFiles(_)
PendingFiles(calls) ==
    IF calls = <<>> THEN 0 ELSE Len(Head(calls)) + PendingFiles(Tail(calls))

\* The file lists a change event of the file input can carry
FileLists == UNION {[1..n -> ClipTypes] : n \in 1..MaxUploads}

HandleFileUploadGuardMissing(files) ==
    /\ Idle
    /\ ~ffmpegLoading
    /\ (nextClipId - 1) + PendingFiles(uploads) + Len(files) <= MaxUploads
    /\ uploads' = Append(uploads, files)
    /\ UNCHANGED toast
    /\ UNCHANGED <<ffmpegLoading, ffmpeg, availableClips, sequences, loading,
                   nextClipId, genpc, newSequences, usedCombinations, exportVars>>

\* handleFileUpload from the change event to its first await (lines 81-102): the
\* guard, taken once for the whole file list, then the probe of the first file.
\* The upload button and the file input are disabled while ffmpegLoading.
HandleFileUpload(files) ==
    /\ Idle
    /\ ~ffmpegLoading
    /\ IF ffmpegLoading \/ ffmpeg = "null"
       THEN /\ toast' = "Please wait for video processing to initialize"
            /\ UNCHANGED uploads
       ELSE /\ (nextClipId - 1) + PendingFiles(uploads) + Len(files) <= MaxUploads
            /\ uploads' = Append(uploads, files)
            /\ UNCHANGED toast
    /\ UNCHANGED <<ffmpegLoading, ffmpeg, availableClips, sequences, loading,
                   nextClipId, genpc, newSequences, usedCombinations, exportVars>>

\* video.onloadedmetadata of the file that call u awaits: the call resumes with
\* the probed duration, appends the clip (lines 102-115) and goes on to probe
\* its next file, or ends after its last one.
HandleFileUploadLoaded(u, duration) ==
    /\ Idle
    /\ u \in 1..Len(uploads)
    /\ availableClips' = Append(availableClips,
                                VideoClip(nextClipId, Head(uploads[u]), duration,
                                          nextClipId))
    /\ nextClipId' = nextClipId + 1
    /\ uploads' = IF Len(uploads[u]) > 1
                  THEN [uploads EXCEPT ![u] = Tail(@)]
                  ELSE SubSeq(uploads, 1, u - 1) \o SubSeq(uploads, u + 1, Len(uploads))
    /\ UNCHANGED toast
    /\ UNCHANGED <<ffmpegLoading, ffmpeg, sequences, loading,
                   genpc, newSequences, usedCombinations, exportVars>>

\* clip.type = newType on the clip object itself, which the sequences share
UpdateClipTypeInPlace(clipId, newType) ==
    /\ Idle
    /\ availableClips' =
          [i \in 1..Len(availableClips) |->
              IF availableClips[i].id = clipId
              THEN [availableClips[i] EXCEPT !.type = newType]
              ELSE availableClips[i]]
    /\ sequences' =
          [n \in 1..Len(sequences) |->
              [sequences[n] EXCEPT !.clips =
                  [k \in 1..Len(sequences[n].clips) |->
                      IF sequences[n].clips[k].id = clipId
                      THEN [sequences[n].clips[k] EXCEPT !.type = newType]
                      ELSE sequences[n].clips[k]]]]
    /\ UNCHANGED <<ffmpegLoading, ffmpeg, loading, uploadVars,
                   genpc, newSequences, usedCombinations, toast, exportVars>>

\* prev.map(clip => clip.id === clipId ? { ...clip, type: newType } : clip)
UpdateClipType(clipId, newType) ==
    /\ Idle
    /\ availableClips' =
          [i \in 1..Len(availableClips) |->
              IF availableClips[i].id = clipId
              THEN [availableClips[i] EXCEPT !.type = newType]
              ELSE availableClips[i]]
    /\ UNCHANGED <<ffmpegLoading, ffmpeg, sequences, loading, uploadVars,
                   genpc, newSequences, usedCombinations, toast, exportVars>>

\* prev.filter((clip, position) => position !== clipId)
RemoveClipByPosition(clipId) ==
    /\ Idle
    /\ availableClips' =
          [i \in 1..(Len(availableClips) - (IF clipId <= Len(availableClips) THEN 1 ELSE 0))
              |-> IF i < clipId THEN availableClips[i] ELSE availableClips[i + 1]]
    /\ UNCHANGED toast
    /\ UNCHANGED <<ffmpegLoading, ffmpeg, sequences, loading, uploadVars,
                   genpc, newSequences, usedCombinations, exportVars>>

\* prev.filter(clip => clip.id !== clipId); an id no clip has leaves the catalog
\* as it is
RemoveClip(clipId) ==
    /\ Idle
    /\ LET Keep(clip) == clip.id # clipId
       IN  availableClips' = SelectSeq(availableClips, Keep)
    /\ UNCHANGED toast
    /\ UNCHANGED <<ffmpegLoading, ffmpeg, sequences, loading, uploadVars,
                   genpc, newSequences, usedCombinations, exportVars>>

RemoveAllClips ==
    /\ Idle
    /\ Len(availableClips) > 0
    /\ availableClips' = <<>>
    /\ UNCHANGED toast
    /\ UNCHANGED <<ffmpegLoading, ffmpeg, sequences, loading, uploadVars,
                   genpc, newSequences, usedCombinations, exportVars>>

DeleteSequence(sequenceId) ==
    /\ Idle
    /\ \E i \in 1..Len(sequences) : sequences[i].id = sequenceId
    /\ LET Keep(seq) == seq.id # sequenceId
       IN  sequences' = SelectSeq(sequences, Keep)
    /\ UNCHANGED toast
    /\ UNCHANGED <<ffmpegLoading, ffmpeg, availableClips, loading, uploadVars,
                   genpc, newSequences, usedCombinations, exportVars>>

-----------------------------------------------------------------------------
(* Sequence generator *)

IsHook(clip) == clip.type = "hook"
IsSellingPoint(clip) == clip.type = "selling-point"
IsCta(clip) == clip.type = "cta"

hooks == SelectSeq(availableClips, IsHook)
sellingPoints == SelectSeq(availableClips, IsSellingPoint)
ctas == SelectSeq(availableClips, IsCta)

\* hooks.length * ctas.length * Math.pow(2, sellingPoints.length)
maxCombinationsOf(nh, ns, nc) == nh * nc * Pow2(ns)

maxCombinations == maxCombinationsOf(Len(hooks), Len(sellingPoints), Len(ctas))

\* Math.min(10, maxCombinations)
numSequencesOf(nh, ns, nc) == Min(MaxSequences, maxCombinationsOf(nh, ns, nc))

numSequencesNoSubsets == Min(MaxSequences, Len(hooks) * Len(ctas))

numSequencesHooksOnly == Min(MaxSequences, Len(hooks) * Pow2(Len(sellingPoints)))

numSequences == numSequencesOf(Len(hooks), Len(sellingPoints), Len(ctas))

\* Math.min(Math.floor(Math.random() * 3) + 1, sellingPoints.length)
numSellingPointsOffByOne(r) == Min(r, Len(sellingPoints))

numSellingPoints(r) == Min(r + 1, Len(sellingPoints))

\* n independent picks, sellingPoints[Math.floor(Math.random() * length)] each
shuffledSellingPointsWithRepeats(p, n) == [i \in 1..n |-> sellingPoints[p[1]]]

\* [...sellingPoints].sort(() => Math.random() - 0.5).slice(0, n)
shuffledSellingPoints(p, n) == [i \in 1..n |-> sellingPoints[p[i]]]

\* [hook.id, ...sps.map(sp => sp.id).sort(), cta.id].join('|'); the ids hold no
\* '|', so the joined string and the list of ids determine each other.
combinationKeyUnsorted(hook, sps, cta) ==
    <<hook.id>> \o [i \in 1..Len(sps) |-> sps[i].id] \o <<cta.id>>

combinationKey(hook, sps, cta) ==
    <<hook.id>> \o SortIds([i \in 1..Len(sps) |-> sps[i].id]) \o <<cta.id>>

sequenceClips(hook, sps, cta) == <<hook>> \o sps \o <<cta>>

\* One draw: the values Math.random() gives are the hook index, the cta index,
\* r = Math.floor(Math.random() * 3) and the order p the shuffle leaves.
DrawSet ==
    {d \in [h : 1..Len(hooks), c : 1..Len(ctas), r : 0..(MaxSellingPoints - 1),
            p : Perms(Len(sellingPoints))] : TRUE}

DrawHook(d) == hooks[d.h]
DrawCta(d) == ctas[d.c]
DrawSps(d) == shuffledSellingPoints(d.p, numSellingPoints(d.r))
DrawKey(d) == combinationKey(DrawHook(d), DrawSps(d), DrawCta(d))

GenerateSequencesNoCtaCheck ==
    /\ Idle
    /\ ~loading /\ ~ffmpegLoading
    /\ IF Len(availableClips) = 0
       THEN /\ toast' = "Please upload some video clips first"
            /\ UNCHANGED <<loading, genpc, newSequences, usedCombinations>>
       ELSE IF Len(hooks) = 0
       THEN /\ toast' = "You need at least one hook and one CTA clip"
            /\ UNCHANGED <<loading, genpc, newSequences, usedCombinations>>
       ELSE /\ loading' = TRUE
            /\ newSequences' = <<>>
            /\ usedCombinations' = {}
            /\ genpc' = "loop"
            /\ UNCHANGED toast
    /\ UNCHANGED <<ffmpegLoading, ffmpeg, availableClips, sequences, uploadVars,
                   exportVars>>

\* setSequences([]) before the error toast of a refused call
GenerateSequencesClearsList ==
    /\ Idle
    /\ ~loading /\ ~ffmpegLoading
    /\ IF Len(availableClips) = 0
       THEN /\ toast' = "Please upload some video clips first"
            /\ sequences' = <<>>
            /\ UNCHANGED <<loading, genpc, newSequences, usedCombinations>>
       ELSE IF Len(hooks) = 0 \/ Len(ctas) = 0
       THEN /\ toast' = "You need at least one hook and one CTA clip"
            /\ sequences' = <<>>
            /\ UNCHANGED <<loading, genpc, newSequences, usedCombinations>>
       ELSE /\ loading' = TRUE
            /\ newSequences' = <<>>
            /\ usedCombinations' = {}
            /\ genpc' = "loop"
            /\ UNCHANGED <<toast, sequences>>
    /\ UNCHANGED <<ffmpegLoading, ffmpeg, availableClips, uploadVars, exportVars>>

\* generateSequences up to the while loop (lines 146-167)
GenerateSequences ==
    /\ Idle
    /\ ~loading /\ ~ffmpegLoading
    /\ IF Len(availableClips) = 0
       THEN /\ toast' = "Please upload some video clips first"
            /\ UNCHANGED <<loading, genpc, newSequences, usedCombinations, exportVars>>
       ELSE IF Len(hooks) = 0 \/ Len(ctas) = 0
       THEN /\ toast' = "You need at least one hook and one CTA clip"
            /\ UNCHANGED <<loading, genpc, newSequences, usedCombinations, exportVars>>
       ELSE /\ loading' = TRUE
            /\ newSequences' = <<>>
            /\ usedCombinations' = {}
            /\ genpc' = "loop"
            /\ UNCHANGED toast
    /\ UNCHANGED <<ffmpegLoading, ffmpeg, availableClips, sequences, uploadVars,
                   exportVars>>

\* One iteration of the while loop (lines 169-205)
DrawAttempt ==
    /\ genpc = "loop"
    /\ Len(newSequences) < numSequences
    /\ \E d \in DrawSet :
          IF DrawKey(d) \notin usedCombinations
          THEN /\ usedCombinations' = usedCombinations \cup {DrawKey(d)}
               /\ newSequences' = Append(newSequences,
                     [id |-> Len(newSequences) + 1,
                      clips |-> sequenceClips(DrawHook(d), DrawSps(d), DrawCta(d)),
                      duration |-> SumDurations(
                          sequenceClips(DrawHook(d), DrawSps(d), DrawCta(d)))])
          ELSE UNCHANGED <<newSequences, usedCombinations>>
    /\ UNCHANGED <<ffmpegLoading, ffmpeg, availableClips, sequences, loading,
                   uploadVars, genpc, toast, exportVars>>

\* setSequences(prev => [...prev, ...newSequences])
GenerateFinishAppends ==
    /\ genpc = "loop"
    /\ ~(Len(newSequences) < numSequences)
    /\ sequences' = sequences \o newSequences
    /\ loading' = FALSE
    /\ UNCHANGED toast
    /\ genpc' = "idle"
    /\ newSequences' = <<>>
    /\ usedCombinations' = {}
    /\ UNCHANGED <<ffmpegLoading, ffmpeg, availableClips, uploadVars, exportVars>>

\* Loop exit and the tail of generateSequences (lines 207-209)
GenerateFinish ==
    /\ genpc = "loop"
    /\ ~(Len(newSequences) < numSequences)
    /\ sequences' = newSequences
    /\ loading' = FALSE
    /\ UNCHANGED toast
    /\ genpc' = "idle"
    /\ newSequences' = <<>>
    /\ usedCombinations' = {}
    /\ UNCHANGED <<ffmpegLoading, ffmpeg, availableClips, uploadVars, exportVars>>

\* newSequences after the iterations of the while loop (lines 169-205) that
\* take the draws k, k + 1, ... of `draws` in turn, from the newSequences and
\* usedCombinations given, up to the iteration that leaves `count` sequences.
RECURSIVE LoopAfter(_, _, _, _, _)
LoopAfter(draws, k, built, used, count) ==
    IF k > Len(draws) \/ ~(Len(built) < count) THEN built
    ELSE LET d == draws[k]
             clips == sequenceClips(DrawHook(d), DrawSps(d), DrawCta(d))
         IN  IF DrawKey(d) \notin used
             THEN LoopAfter(draws, k + 1,
                            Append(built, [id |-> Len(built) + 1,
                                           clips |-> clips,
                                           duration |-> SumDurations(clips)]),
                            used \cup {DrawKey(d)}, count)
             ELSE LoopAfter(draws, k + 1, built, used, count)

\* The keys usedCombinations holds when newSequences is `built`
KeysOf(built) ==
    {combinationKey(built[n].clips[1],
                    SubSeq(built[n].clips, 2, Len(built[n].clips) - 1),
                    built[n].clips[Len(built[n].clips)]) : n \in 1..Len(built)}

-----------------------------------------------------------------------------
(* Export pipeline *)

\* JavaScript's `!index`: true for undefined and for 0
NotIndex(idx) == idx = -1 \/ idx = 0

\* `index !== undefined`
IndexDefined(idx) == idx # -1

\* The `sequence` argument of the running exportSequence call
CurrentSequence(task) == task.seqs[IF task.idx < 0 THEN 1 ELSE task.idx + 1]

CurrentClips(task) == CurrentSequence(task).clips

\* What one handler run reads and writes besides the catalog and the sequence
\* list: m.task is the call itself, m.error the last logged export error.
Machine(task) ==
    [task |-> task, fs |-> fs, loading |-> loading, toast |-> toast,
     error |-> exportError]

ThrowKeepsArchive(m, kind) ==
    IF m.task.kind = "batch"
    THEN [m EXCEPT !.error = kind, !.task.pc = "zip"]
    ELSE [m EXCEPT !.error = kind, !.toast = "Failed to export sequence",
                   !.loading = FALSE, !.task = FreeTask]

\* An error raised inside the try block of exportSequence: its catch and finally
\* blocks (lines 272-278), then the caller: a single export's promise rejects,
\* downloadAllSequences runs its own catch and finally (lines 311-316).
Throw(m, kind) ==
    LET idx == m.task.idx
        caught == [m EXCEPT !.error = kind,
                            !.toast = IF NotIndex(idx)
                                      THEN "Failed to export sequence" ELSE @,
                            !.loading = IF NotIndex(idx) THEN FALSE ELSE @]
    IN  IF m.task.kind = "batch"
        THEN [caught EXCEPT !.toast = "Failed to download all sequences",
                            !.loading = FALSE,
                            !.task = FreeTask]
        ELSE [caught EXCEPT !.task = FreeTask]

\* The loop head of lines 224-230 for clip m.task.i: throw when the clip has no
\* file, else suspend at fetchFile(clip.file).
NextInput(m) ==
    IF CurrentClips(m.task)[m.task.i + 1].file = NoFile
    THEN Throw(m, "MissingSource")
    ELSE [m EXCEPT !.task.pc = "fetch"]

\* exportSequence from its try block to its first await (lines 218-230); the
\* readiness guard of lines 213-216 is taken by the calling action.
Enter(m) ==
    LET started == [m EXCEPT !.loading = TRUE,
                             !.task.i = 0,
                             !.task.list = <<>>]
    IN  NextInput(started)

\* ffmpeg.exec(['-f', 'concat', '-safe', '0', '-i', 'list.txt', '-c', 'copy',
\* 'output.mp4']): the inputs list.txt names, in its order
ExecPossible(area) ==
    /\ area.list.present
    /\ \A k \in 1..Len(area.list.data) : area.input[area.list.data[k]] # NoFile

ExecOutput(area) ==
    [k \in 1..Len(area.list.data) |-> area.input[area.list.data[k]]]

BatchItemDoneStopsAfterFirst(m, outputData) ==
    [m EXCEPT !.loading = IF NotIndex(m.task.idx) THEN FALSE ELSE @,
              !.task.zip = Append(@, [name |-> m.task.idx + 1, data |-> outputData]),
              !.task.pc = "zip"]

\* exportSequence returned {name, data} to downloadAllSequences (lines 248-252,
\* then the finally of 276-278): lines 294-298 store it and start the next item,
\* or leave the loop for zip.generateAsync (line 300).
BatchItemDone(m, outputData) ==
    LET idx == m.task.idx
        stored == [m EXCEPT !.loading = IF NotIndex(idx) THEN FALSE ELSE @,
                            !.task.zip = Append(@, [name |-> idx + 1,
                                                    data |-> outputData])]
    IN  IF idx + 1 < Len(m.task.seqs)
        THEN Enter([stored EXCEPT !.task.idx = idx + 1])
        ELSE [stored EXCEPT !.task.pc = "zip"]

\* The single export hands outputData to the browser as `restitched
\* ${sequence.id}.mp4` (lines 254-262) and calls the first deleteFile.
SingleDownload(m, outputData) ==
    [m EXCEPT !.task.pc = "deleteInput", !.task.i = 0]

\* The awaited call of a suspended task settles: `ok` says whether it resolved
\* or rejected.  Reading or deleting an entry that is not in the working area,
\* and concatenating a list whose inputs are not all there, reject.  Every
\* rejection inside exportSequence is logged as "EngineError"; a rejection of
\* zip.generateAsync is caught by downloadAllSequences alone (lines 311-316).
Resume(m, ok) ==
    LET task == m.task
        n == Len(CurrentClips(task))
    IN  CASE task.pc = "fetch" ->
               IF ~ok THEN Throw(m, "EngineError")
               ELSE [m EXCEPT !.task.pc = "input"]
          [] task.pc = "input" ->
               IF ~ok THEN Throw(m, "EngineError")
               ELSE LET written ==
                          [m EXCEPT !.fs.input[task.i] =
                                        CurrentClips(task)[task.i + 1].file,
                                    !.task.list = Append(@, task.i),
                                    !.task.i = task.i + 1]
                    IN  IF task.i + 1 < n
                        THEN NextInput(written)
                        ELSE [written EXCEPT !.task.pc = "list"]
          [] task.pc = "list" ->
               IF ~ok THEN Throw(m, "EngineError")
               ELSE [m EXCEPT !.fs.list = Present(task.list), !.task.pc = "exec"]
          [] task.pc = "exec" ->
               IF ~ok \/ ~ExecPossible(m.fs) THEN Throw(m, "EngineError")
               ELSE [m EXCEPT !.fs.output = Present(ExecOutput(m.fs)),
                              !.task.execs = Append(@, CurrentSequence(task).id),
                              !.task.pc = "read"]
          [] task.pc = "read" ->
               IF ~ok \/ ~m.fs.output.present THEN Throw(m, "EngineError")
               ELSE IF IndexDefined(task.idx)
               THEN BatchItemDone(m, m.fs.output.data)
               ELSE SingleDownload(m, m.fs.output.data)
          [] task.pc = "deleteInput" ->
               IF ~ok \/ m.fs.input[task.i] = NoFile THEN Throw(m, "EngineError")
               ELSE [m EXCEPT !.fs.input[task.i] = NoFile,
                              !.task.i = task.i + 1,
                              !.task.pc = IF task.i + 1 < n
                                          THEN "deleteInput" ELSE "deleteList"]
          [] task.pc = "deleteList" ->
               IF ~ok \/ ~m.fs.list.present THEN Throw(m, "EngineError")
               ELSE [m EXCEPT !.fs.list = Absent, !.task.pc = "deleteOutput"]
          [] task.pc = "deleteOutput" ->
               IF ~ok \/ ~m.fs.output.present THEN Throw(m, "EngineError")
               ELSE [m EXCEPT !.fs.output = Absent,
                              !.loading = IF NotIndex(task.idx) THEN FALSE ELSE @,
                              !.task = FreeTask]
          [] task.pc = "zip" ->
               \* task.zip is handed to the browser as restitched-sequences.zip
               IF ~ok
               THEN [m EXCEPT !.toast = "Failed to download all sequences",
                              !.loading = FALSE, !.task = FreeTask]
               ELSE [m EXCEPT !.loading = FALSE, !.task = FreeTask]

FreeSlots == {t \in 1..MaxTasks : tasks[t].pc = "free"}

\* A new call takes the lowest free slot; which slot it takes has no meaning.
NewSlot == CHOOSE t \in FreeSlots : \A u \in FreeSlots : t <= u

Commit(t, m) ==
    /\ tasks' = [tasks EXCEPT ![t] = m.task]
    /\ fs' = m.fs
    /\ loading' = m.loading
    /\ toast' = m.toast
    /\ exportError' = m.error

\* The Export button of sequence s: exportSequence(sequence) to its first await.
\* The button is never disabled.
ExportSequence(s) ==
    /\ Idle
    /\ s \in 1..Len(sequences)
    /\ FreeSlots # {}
    /\ IF ffmpegLoading \/ ffmpeg = "null"
       THEN /\ toast' = "Please wait for video processing to initialize"
            /\ UNCHANGED <<loading, exportVars>>
       ELSE Commit(NewSlot,
                   Enter(Machine([FreeTask EXCEPT !.kind = "single",
                                                  !.seqs = <<sequences[s]>>,
                                                  !.idx = -1])))
    /\ UNCHANGED <<ffmpegLoading, ffmpeg, availableClips, sequences, uploadVars,
                   genVars>>

\* The Download All button (shown when there are sequences, disabled while
\* loading or ffmpegLoading): downloadAllSequences to its first await, which is
\* inside exportSequence(sequences[0], 0).
DownloadAllSequences ==
    /\ Idle
    /\ Len(sequences) > 0
    /\ ~loading /\ ~ffmpegLoading
    /\ FreeSlots # {}
    /\ IF ffmpegLoading \/ ffmpeg = "null" \/ Len(sequences) = 0
       THEN /\ toast' = "No sequences to download or processing not ready"
            /\ UNCHANGED <<loading, exportVars>>
       ELSE LET call == [Machine([FreeTask EXCEPT !.kind = "batch",
                                                  !.seqs = sequences,
                                                  !.idx = 0])
                            EXCEPT !.loading = TRUE]
            IN  Commit(NewSlot, Enter(call))
    /\ UNCHANGED <<ffmpegLoading, ffmpeg, availableClips, sequences, uploadVars,
                   genVars>>

\* The call task t awaits (fetchFile, an engine call or zip.generateAsync)
\* settles, and the task runs on to its next await or to its end.
ExportResume(t, ok) ==
    /\ Idle
    /\ tasks[t].pc # "free"
    /\ Commit(t, Resume(Machine(tasks[t]), ok))
    /\ UNCHANGED <<ffmpegLoading, ffmpeg, availableClips, sequences, uploadVars,
                   genVars>>

-----------------------------------------------------------------------------
(* Specifications *)

\* The durations probed for the uploaded files (video.duration, line 97)
UploadDurations == 1..MaxDuration

\* The page from its construction, with every handler.  Exports and batches
\* overlap each other and every other handler, so the properties are verified
\* under the specifications below, each with the handlers its properties are
\* about, from Init or from a state the page reaches.
Next ==
    \/ InitFFmpegLoaded
    \/ InitFFmpegFailed
    \/ \E files \in FileLists : HandleFileUpload(files)
    \/ \E u \in 1..MaxUploads, d \in UploadDurations : HandleFileUploadLoaded(u, d)
    \/ \E id \in 1..MaxUploads, t \in ClipTypes : UpdateClipType(id, t)
    \/ \E id \in 1..MaxUploads : RemoveClip(id)
    \/ RemoveAllClips
    \/ \E n \in 1..MaxSequences : DeleteSequence(n)
    \/ GenerateSequences
    \/ DrawAttempt
    \/ GenerateFinish
    \/ \E s \in 1..MaxSequences : ExportSequence(s)
    \/ DownloadAllSequences
    \/ \E t \in 1..MaxTasks, ok \in BOOLEAN : ExportResume(t, ok)

Spec == Init /\ [][Next]_vars

\* The page from its construction with the handlers of the catalog, of the
\* generator and of the sequence list: nothing is exported.
EditNext ==
    \/ InitFFmpegLoaded
    \/ InitFFmpegFailed
    \/ \E files \in FileLists : HandleFileUpload(files)
    \/ \E u \in 1..MaxUploads, d \in UploadDurations : HandleFileUploadLoaded(u, d)
    \/ \E id \in 1..MaxUploads, t \in ClipTypes : UpdateClipType(id, t)
    \/ \E id \in 1..MaxUploads : RemoveClip(id)
    \/ RemoveAllClips
    \/ \E n \in 1..MaxSequences : DeleteSequence(n)
    \/ GenerateSequences
    \/ DrawAttempt
    \/ GenerateFinish

EditSpec == Init /\ [][EditNext]_vars

\* The page from its construction with the handlers that the readiness gate
\* guards or that use the engine: initialization, uploads, generation, exports
\* and batches, started at any time.
ReadinessNext ==
    \/ InitFFmpegLoaded
    \/ InitFFmpegFailed
    \/ \E files \in FileLists : HandleFileUpload(files)
    \/ \E u \in 1..MaxUploads, d \in UploadDurations : HandleFileUploadLoaded(u, d)
    \/ GenerateSequences
    \/ DrawAttempt
    \/ GenerateFinish
    \/ \E s \in 1..MaxSequences : ExportSequence(s)
    \/ DownloadAllSequences
    \/ \E t \in 1..MaxTasks, ok \in BOOLEAN : ExportResume(t, ok)

ReadinessSpec == Init /\ [][ReadinessNext]_vars

\* The generator on the catalogs of up to GenMaxClips uploaded clips, engine ready,
\* nothing exported.  generateSequences reads the catalog only through its three
\* filtered lists, each in upload order, so the catalogs are taken with the hooks
\* uploaded first, then the selling-points, then the ctas; clip i lasts i.
TypeOfPosition(i, nh, ns) ==
    IF i <= nh THEN "hook" ELSE IF i <= nh + ns THEN "selling-point" ELSE "cta"

CatalogOf(nh, ns, nc) ==
    [i \in 1..(nh + ns + nc) |-> VideoClip(i, TypeOfPosition(i, nh, ns), i, i)]

Catalogs ==
    {CatalogOf(nh, ns, nc) : nh \in 0..RunMaxClips, ns \in 0..RunMaxClips,
                             nc \in 0..RunMaxClips}

GenInit ==
    /\ ffmpegLoading = FALSE
    /\ ffmpeg = "instance"
    /\ availableClips \in {c \in Catalogs : Len(c) <= GenMaxClips}
    /\ nextClipId = Len(availableClips) + 1
    /\ uploads = <<>>
    /\ sequences = <<>>
    /\ loading = FALSE
    /\ genpc = "idle"
    /\ newSequences = <<>>
    /\ usedCombinations = {}
    /\ toast = "none"
    /\ tasks = [t \in 1..MaxTasks |-> FreeTask]
    /\ fs = EmptyFs
    /\ exportError = "none"

GenNext ==
    \/ GenerateSequences
    \/ DrawAttempt
    \/ GenerateFinish

GenSpec == GenInit /\ [][GenNext]_vars

\* An iteration of the while loop that draws a combination not used before
FreshDraw == DrawAttempt /\ newSequences' # newSequences

\* Math.random gives every draw a positive probability in every iteration, so a
\* loop that can still draw an unused combination does draw one; the loop exit
\* follows the last iteration in the same synchronous run.
GenFairSpec ==
    GenInit /\ [][GenNext]_vars /\ WF_vars(FreshDraw) /\ WF_vars(GenerateFinish)

\* The while loop of generateSequences on the catalogs of up to RunMaxClips
\* uploaded clips (taken as in GenInit) that have a hook and a cta, from the
\* states it is in when LoopLeft sequences short of its target count: the
\* states after the iterations that took the draws FirstDraws(first), up to
\* the one that left numSequences - LoopLeft sequences.  From there the loop
\* takes every draw of DrawSet in every iteration.
\* FirstDraws(first) are some of the draws the code can take, numbered in the
\* order hook index, cta index, r, then the order the shuffle leaves, here a
\* rotation of the selling-points: the draws number first, first + 1, ... once
\* round.
FirstDrawPeriod ==
    Len(hooks) * Len(ctas) * MaxSellingPoints
        * (IF Len(sellingPoints) = 0 THEN 1 ELSE Len(sellingPoints))

FirstDraw(n) ==
    LET ns == Len(sellingPoints)
        rot == n \div (Len(hooks) * Len(ctas) * MaxSellingPoints)
    IN  [h |-> (n % Len(hooks)) + 1,
         c |-> ((n \div Len(hooks)) % Len(ctas)) + 1,
         r |-> (n \div (Len(hooks) * Len(ctas))) % MaxSellingPoints,
         p |-> [i \in 1..ns |-> ((i - 1 + rot) % ns) + 1]]

FirstDraws(first) ==
    [k \in 1..FirstDrawPeriod |-> FirstDraw((first + k - 1) % FirstDrawPeriod)]

LoopInit ==
    /\ ffmpegLoading = FALSE
    /\ ffmpeg = "instance"
    /\ availableClips \in {c \in Catalogs : /\ Len(c) <= RunMaxClips
                                            /\ \E i \in 1..Len(c) : IsHook(c[i])
                                            /\ \E i \in 1..Len(c) : IsCta(c[i])}
    /\ nextClipId = Len(availableClips) + 1
    /\ uploads = <<>>
    /\ sequences = <<>>
    /\ loading = TRUE
    /\ genpc = "loop"
    /\ \E first \in 0..(LoopStarts - 1) :
          newSequences = LoopAfter(FirstDraws(first), 1, <<>>, {},
                                   numSequences - LoopLeft)
    /\ usedCombinations = KeysOf(newSequences)
    /\ toast = "none"
    /\ tasks = [t \in 1..MaxTasks |-> FreeTask]
    /\ fs = EmptyFs
    /\ exportError = "none"

LoopNext ==
    \/ DrawAttempt
    \/ GenerateFinish

LoopSpec == LoopInit /\ [][LoopNext]_vars

\* The export pipeline with exports and batches started at any time, on the
\* sequence lists that generateSequences leaves for a catalog of two hooks and
\* one cta (both orders of its two sequences) and deleteSequence then shortens.
ExportCatalog ==
    <<VideoClip(1, "hook", 1, 1), VideoClip(2, "hook", 2, 2), VideoClip(3, "cta", 1, 3)>>

GeneratedSequence(n, hook) ==
    [id |-> n,
     clips |-> <<ExportCatalog[hook], ExportCatalog[3]>>,
     duration |-> ExportCatalog[hook].duration + ExportCatalog[3].duration]

ExportLists ==
    LET full == {<<GeneratedSequence(1, 1), GeneratedSequence(2, 2)>>,
                 <<GeneratedSequence(1, 2), GeneratedSequence(2, 1)>>}
    IN  full \cup {<<l[1]>> : l \in full} \cup {<<l[2]>> : l \in full}

ExportInit ==
    /\ ffmpegLoading = FALSE
    /\ ffmpeg = "instance"
    /\ availableClips = ExportCatalog
    /\ nextClipId = 4
    /\ uploads = <<>>
    /\ sequences \in ExportLists
    /\ loading = FALSE
    /\ genpc = "idle"
    /\ newSequences = <<>>
    /\ usedCombinations = {}
    /\ toast = "none"
    /\ tasks = [t \in 1..MaxTasks |-> FreeTask]
    /\ fs = EmptyFs
    /\ exportError = "none"

ExportNext ==
    \/ \E s \in 1..MaxSequences : ExportSequence(s)
    \/ DownloadAllSequences
    \/ \E t \in 1..MaxTasks, ok \in BOOLEAN : ExportResume(t, ok)
    \/ \E n \in 1..MaxSequences : DeleteSequence(n)

ExportSpec == ExportInit /\ [][ExportNext]_vars

\* The sequence list under generations, each over the list the one before left,
\* and deletions.
ListNext ==
    \/ GenerateSequences
    \/ DrawAttempt
    \/ GenerateFinish
    \/ \E n \in 1..MaxSequences : DeleteSequence(n)

ListSpec == GenInit /\ [][ListNext]_vars

\* The catalog handlers on the same catalogs, called with the ids of the clips
\* and with one id that no clip has.
CatalogNext ==
    \/ \E id \in 1..(GenMaxClips + 1), type \in ClipTypes : UpdateClipType(id, type)
    \/ \E id \in 1..(GenMaxClips + 1) : RemoveClip(id)
    \/ RemoveAllClips

CatalogSpec == GenInit /\ [][CatalogNext]_vars

\* Exports and batches started at any time while clips are removed from the
\* catalog and the sequence list is deleted from and generated anew.
BatchNext ==
    \/ \E s \in 1..MaxSequences : ExportSequence(s)
    \/ DownloadAllSequences
    \/ \E t \in 1..MaxTasks, ok \in BOOLEAN : ExportResume(t, ok)
    \/ \E n \in 1..MaxSequences : DeleteSequence(n)
    \/ \E id \in 1..Len(ExportCatalog) : RemoveClip(id)
    \/ GenerateSequences
    \/ DrawAttempt
    \/ GenerateFinish

\* Exports and batches started at any time on the generated lists of ExportInit
\* while the sequence list is deleted from and generated anew, with every
\* awaited call resolving: the runs in which an export or a batch fails only for
\* what it finds in the working area.
ArchiveNext ==
    \/ \E s \in 1..MaxSequences : ExportSequence(s)
    \/ DownloadAllSequences
    \/ \E t \in 1..MaxTasks : ExportResume(t, TRUE)
    \/ \E n \in 1..MaxSequences : DeleteSequence(n)
    \/ GenerateSequences
    \/ DrawAttempt
    \/ GenerateFinish

ArchiveSpec == ExportInit /\ [][ArchiveNext]_vars

\* The page after a generation on ExportCatalog, the deletion of its second
\* sequence and the removal of clip 2 from the catalog: the sequence left is
\* the one of hook 1 or the one of the removed hook 2.
FailureCatalog == <<ExportCatalog[1], ExportCatalog[3]>>

FailureInit ==
    /\ ffmpegLoading = FALSE
    /\ ffmpeg = "instance"
    /\ availableClips = FailureCatalog
    /\ nextClipId = 4
    /\ uploads = <<>>
    /\ sequences \in {l \in ExportLists : Len(l) = 1 /\ l[1].id = 1}
    /\ loading = FALSE
    /\ genpc = "idle"
    /\ newSequences = <<>>
    /\ usedCombinations = {}
    /\ toast = "none"
    /\ tasks = [t \in 1..MaxTasks |-> FreeTask]
    /\ fs = EmptyFs
    /\ exportError = "none"

FailureSpec == FailureInit /\ [][BatchNext]_vars

\* The page after a hook and a cta were uploaded, one sequence generated from
\* them, and a selling-point uploaded afterwards.
LateUploadCatalog ==
    <<VideoClip(1, "hook", 1, 1), VideoClip(2, "cta", 1, 2),
      VideoClip(3, "selling-point", 2, 3)>>

LateUploadInit ==
    /\ ffmpegLoading = FALSE
    /\ ffmpeg = "instance"
    /\ availableClips = LateUploadCatalog
    /\ nextClipId = 4
    /\ uploads = <<>>
    /\ sequences = <<[id |-> 1,
                      clips |-> <<LateUploadCatalog[1], LateUploadCatalog[2]>>,
                      duration |-> 2]>>
    /\ loading = FALSE
    /\ genpc = "idle"
    /\ newSequences = <<>>
    /\ usedCombinations = {}
    /\ toast = "none"
    /\ tasks = [t \in 1..MaxTasks |-> FreeTask]
    /\ fs = EmptyFs
    /\ exportError = "none"

\* Every engine call (and zip.generateAsync) settles, and the event loop runs
\* the continuation of a settled call as soon as no handler is running, however
\* often other handlers run in between; the draws of generateSequences are fair.
LateUploadFairSpec ==
    /\ LateUploadInit
    /\ [][BatchNext]_vars
    /\ \A t \in 1..MaxTasks : SF_vars(\E ok \in BOOLEAN : ExportResume(t, ok))
    /\ WF_vars(FreshDraw)
    /\ WF_vars(GenerateFinish)

-----------------------------------------------------------------------------
(* Properties *)

Slots == 1..MaxTasks

NoTaskActive == \A t \in Slots : tasks[t].pc = "free"

EngineCalls ==
    {"input", "list", "exec", "read", "deleteInput", "deleteList", "deleteOutput"}

\* The working-area entries an exportSequence call has registered and not yet
\* deleted when it is suspended at task.pc
RegisteredInputs(task) ==
    CASE task.pc \in {"fetch", "input"} -> 0..(task.i - 1)
      [] task.pc \in {"list", "exec", "read"} -> 0..(Len(CurrentClips(task)) - 1)
      [] task.pc = "deleteInput" -> task.i..(Len(CurrentClips(task)) - 1)
      [] OTHER -> {}

RegisteredList(task) == task.pc \in {"exec", "read", "deleteInput", "deleteList"}

RegisteredOutput(task) ==
    task.pc \in {"read", "deleteInput", "deleteList", "deleteOutput"}

\* All dedup keys are compared as (hook id, set of selling-point ids, cta id).
DedupKey(seq) ==
    [hook |-> seq.clips[1].id,
     sps |-> {seq.clips[k].id : k \in 2..(Len(seq.clips) - 1)},
     cta |-> seq.clips[Len(seq.clips)].id]

CountType(type) ==
    Cardinality({i \in 1..Len(availableClips) : availableClips[i].type = type})

ProducedLists == {newSequences, sequences}

\* C1: in the draw loop of generateSequences, as long as the target count is not
\* reached some draw still yields an unused key; with every drawable combination
\* eventually drawn, this is what makes the loop reach its target and finish.
C1_LoopCanReachTarget ==
    (genpc = "loop" /\ Len(newSequences) < numSequences)
        => \E d \in DrawSet : DrawKey(d) \notin usedCombinations

\* C2: no two sequences of a list that generateSequences builds share the dedup
\* key (hook id, selling-point ids regardless of order, cta id).
C2_NoSharedDedupKey ==
    \A l \in ProducedLists : \A i, j \in 1..Len(l) :
        i # j => DedupKey(l[i]) # DedupKey(l[j])

\* C2 witness: the list under construction holds a sequence whose two
\* selling-points were drawn in the order opposite to their sorted ids.
C2_Witness ==
    /\ genpc = "loop"
    /\ \E i \in 1..Len(newSequences) :
          /\ Len(newSequences[i].clips) = 4
          /\ newSequences[i].clips[2].id > newSequences[i].clips[3].id

ShapeWithSellingPoints(seq, lo, hi) ==
    LET n == Len(seq.clips)
    IN  /\ n >= 2
        /\ seq.clips[1].type = "hook"
        /\ seq.clips[n].type = "cta"
        /\ \A k \in 2..(n - 1) : seq.clips[k].type = "selling-point"
        /\ lo <= n - 2 /\ n - 2 <= hi

\* C3 as stated: every produced sequence is one hook, one to three
\* selling-points, one cta.
C3_ShapeOneToThree ==
    \A l \in ProducedLists : \A i \in 1..Len(l) :
        ShapeWithSellingPoints(l[i], 1, MaxSellingPoints)

\* C3 amended: every produced sequence is one hook first, one cta last and in
\* between only selling-points, at least min(1, |sellingPoints|) and at most
\* min(3, |sellingPoints|) of them: none when the catalog has no selling-point.
C3_Shape ==
    \A l \in ProducedLists : \A i \in 1..Len(l) :
        ShapeWithSellingPoints(l[i],
                               Min(1, CountType("selling-point")),
                               Min(MaxSellingPoints, CountType("selling-point")))

\* C3 witness: the list under construction holds a sequence with one
\* selling-point and a sequence with two.
C3_Witness ==
    /\ \E i \in 1..Len(newSequences) : Len(newSequences[i].clips) = 3
    /\ \E i \in 1..Len(newSequences) : Len(newSequences[i].clips) = 4

\* C4: a completed generateSequences call leaves exactly
\* min(10, |hooks| * |ctas| * 2^|sellingPoints|) sequences, between 1 and 10, and
\* exactly 10 on a catalog of 2 hooks, 3 selling-points and 2 ctas.
C4_CompletedCount ==
    (genpc = "idle" /\ sequences # <<>>) =>
        /\ Len(sequences) =
              Min(10, CountType("hook") * CountType("cta")
                          * Pow2(CountType("selling-point")))
        /\ Len(sequences) >= 1 /\ Len(sequences) <= 10
        /\ (CountType("hook") = 2 /\ CountType("selling-point") = 3
                /\ CountType("cta") = 2) => Len(sequences) = 10

\* C4 witness: a call completed on two hooks, three selling-points and two ctas
\* and left ten sequences, among them one with three selling-points.
C4_Witness ==
    /\ genpc = "idle"
    /\ CountType("hook") = 2 /\ CountType("selling-point") = 3
    /\ CountType("cta") = 2
    /\ Len(sequences) = 10
    /\ \E n \in 1..10 : Len(sequences[n].clips) = 5

\* C5: a generateSequences call on a catalog that is empty or has no hook or no
\* cta does not enter the draw loop and leaves the sequence list, the catalog and
\* the busy flag as they were.
C5_InsufficientInputChangesNothing ==
    [][(GenerateSequences
            /\ (Len(availableClips) = 0 \/ CountType("hook") = 0
                    \/ CountType("cta") = 0))
          => (genpc' = "idle"
                /\ UNCHANGED <<sequences, availableClips, loading>>)]_vars

\* C5 witness: generateSequences was refused for want of a hook or a cta while
\* the list of an earlier generation is still there.
C5_Witness ==
    /\ toast = "You need at least one hook and one CTA clip"
    /\ sequences # <<>>
    /\ (CountType("hook") = 0 \/ CountType("cta") = 0)

\* C6: at most one export or batch has an engine operation in flight.
C6_ExportsSerialized ==
    Cardinality({t \in Slots : tasks[t].pc \in EngineCalls}) <= 1

EntriesGone(area, inputs) ==
    /\ \A n \in inputs : area.input[n] = NoFile
    /\ ~area.list.present
    /\ ~area.output.present

\* The step in which exportSequence returns its buffer: the batch item at the
\* readFile it awaited, the single export after its last deleteFile.
ReturnsBuffer(t) ==
    /\ ExportResume(t, TRUE)
    /\ \/ tasks[t].kind = "batch" /\ tasks[t].pc = "read" /\ fs.output.present
       \/ tasks[t].kind = "single" /\ tasks[t].pc = "deleteOutput"
             /\ fs.output.present

\* C7: when exportSequence finishes successfully, as a single export or as an
\* item of a batch, input0..input{n-1}, list.txt and output.mp4 are no longer in
\* the working area.
C7_SuccessLeavesNoEntries ==
    [][\A t \in Slots :
          ReturnsBuffer(t) =>
              EntriesGone(fs', 0..(Len(CurrentClips(tasks[t])) - 1))]_vars

\* The step in which the engine call that task t awaits throws
EngineCallThrows(t) ==
    /\ ExportResume(t, FALSE)
    /\ tasks[t].pc \in EngineCalls

\* C9: when an engine call of exportSequence fails, every entry the attempt had
\* registered is removed from the working area before the failure is propagated.
C9_EngineFailureLeavesNoEntries ==
    [][\A t \in Slots :
          EngineCallThrows(t) =>
              /\ \A n \in RegisteredInputs(tasks[t]) : fs'.input[n] = NoFile
              /\ RegisteredList(tasks[t]) => ~fs'.list.present
              /\ RegisteredOutput(tasks[t]) => ~fs'.output.present]_vars

\* C10: from a state in which engine initialization has not completed
\* successfully no step adds a clip or starts the probe of an uploaded file,
\* changes the sequence list or the busy flag, starts an export or touches the
\* working area.
C10_NotReadyNothingHappens ==
    [][~EngineReady =>
          UNCHANGED <<availableClips, uploads, sequences, loading, tasks, fs>>]_vars

\* C10 witness: initialization failed and an upload was refused.
C10_Witness ==
    /\ ~EngineReady
    /\ ~ffmpegLoading
    /\ toast = "Please wait for video processing to initialize"
    /\ availableClips = <<>>

\* The items of a batch whose export has completed: all of them once the loop
\* is left, else the ones before the item being exported.
ItemsDone(task) == IF task.pc = "zip" THEN Len(task.seqs) ELSE task.idx

\* C11: a batch that got through its N sequences has run exactly N concatenate
\* commands, the k-th for the k-th sequence of its list; and while it works on an
\* item, the concatenation and the read-back of every earlier item are done and
\* none of a later item has begun.
C11_BatchExecsInOrder ==
    \A t \in Slots :
        tasks[t].kind = "batch" =>
            LET task == tasks[t]
                done == ItemsDone(task)
                started == IF task.pc \in {"fetch", "input", "list", "exec"}
                           THEN done ELSE IF task.pc = "read" THEN done + 1 ELSE done
            IN  /\ Len(task.zip) = done
                /\ task.execs = [k \in 1..started |-> task.seqs[k].id]
                /\ task.pc = "zip" => Len(task.execs) = Len(task.seqs)

\* C11 witness: a batch over two sequences has exported both and is at
\* zip.generateAsync.
C11_Witness ==
    \E t \in Slots :
        /\ tasks[t].kind = "batch"
        /\ tasks[t].pc = "zip"
        /\ Len(tasks[t].seqs) = 2
        /\ Len(tasks[t].execs) = 2

\* The awaited call of task t settles with `ok` and the export of an item
\* fails in the continuation: the awaited call rejects, the concatenation or the
\* read-back finds its entries missing, the next clip has no file, or (in a
\* batch whose item has just returned its buffer) the first clip of the next
\* sequence has no file.
ItemFails(t, ok) ==
    LET task == tasks[t]
    IN  /\ task.pc \in {"fetch", "input", "list", "exec", "read"}
        /\ ExportResume(t, ok)
        /\ \/ ~ok
           \/ task.pc = "exec" /\ ~ExecPossible(fs)
           \/ task.pc = "read" /\ ~fs.output.present
           \/ /\ task.pc = "input"
              /\ task.i + 1 < Len(CurrentClips(task))
              /\ CurrentClips(task)[task.i + 2].file = NoFile
           \/ /\ task.pc = "read"
              /\ task.kind = "batch"
              /\ task.idx + 1 < Len(task.seqs)
              /\ task.seqs[task.idx + 2].clips[1].file = NoFile

\* What the call task t awaits does to the working area when it settles with
\* `ok`, whatever the task goes on to do: a resolved writeFile has written its
\* entry (lines 231, 236), a resolved exec has written output.mp4 (line 238), a
\* resolved deleteFile has removed its entry (lines 266-269).  fetchFile,
\* readFile and zip.generateAsync leave the area alone, and so does every call
\* that rejects, as does an exec or deleteFile the engine cannot carry out.
SettledArea(t, ok) ==
    LET task == tasks[t]
    IN  IF ~ok THEN fs
        ELSE CASE task.pc = "input" ->
                    [fs EXCEPT !.input[task.i] = CurrentClips(task)[task.i + 1].file]
               [] task.pc = "list" ->
                    [fs EXCEPT !.list = Present(task.list)]
               [] task.pc = "exec" ->
                    IF ExecPossible(fs)
                    THEN [fs EXCEPT !.output = Present(ExecOutput(fs))]
                    ELSE fs
               [] task.pc = "deleteInput" ->
                    [fs EXCEPT !.input[task.i] = NoFile]
               [] task.pc = "deleteList" ->
                    [fs EXCEPT !.list = Absent]
               [] task.pc = "deleteOutput" ->
                    [fs EXCEPT !.output = Absent]
               [] OTHER -> fs

\* C12: when the export of an item of a batch fails, the batch call ends in that
\* step: it issues no further engine operation (the working area is as the
\* settled call left it and the call has no continuation), its archive entries
\* are dropped without reaching zip.generateAsync, the error is logged and the
\* failure toast of the batch is shown with the busy flag reset.
C12_BatchStopsAtFirstFailure ==
    [][\A t \in Slots, ok \in BOOLEAN :
          (tasks[t].kind = "batch" /\ ItemFails(t, ok)) =>
              /\ tasks'[t] = FreeTask
              /\ fs' = SettledArea(t, ok)
              /\ exportError' \in {"EngineError", "MissingSource"}
              /\ toast' = "Failed to download all sequences"
              /\ loading' = FALSE]_vars

\* C12 witness: a batch over two sequences has failed in its second item, on
\* the write of that item's second input: the inputs and the output of the first
\* item and the first input of the second are in the working area, no call is
\* left and the failure toast of the batch is shown.
C12_Witness ==
    /\ NoTaskActive
    /\ toast = "Failed to download all sequences"
    /\ exportError = "EngineError"
    /\ Len(sequences) = 2
    /\ fs.output.present
    /\ fs.output.data = <<sequences[1].clips[1].file, sequences[1].clips[2].file>>
    /\ fs.input[0] = sequences[2].clips[1].file
    /\ ~loading

\* The File ids of the clips of the sequence a call is exporting, in clip order
OwnSources(task) ==
    [k \in 1..Len(CurrentClips(task)) |-> CurrentClips(task)[k].file]

\* The step in which ffmpeg.readFile('output.mp4') hands task t its buffer
ReadsBuffer(t) ==
    /\ tasks[t].pc = "read"
    /\ fs.output.present
    /\ ExportResume(t, TRUE)

\* C13: the buffer that readFile hands to an export is the concatenation, in clip
\* order, of the files of the clips of the sequence that export was called for.
C13_DeliveredBufferIsOwnClips ==
    [][\A t \in Slots :
          ReadsBuffer(t) => fs.output.data = OwnSources(tasks[t])]_vars

CatalogIds == {availableClips[i].id : i \in 1..Len(availableClips)}

\* Task t comes, in this step, to a clip whose file it goes on to fetch and
\* write: it starts on the first clip of its sequence or moves on to the next.
ComesToClip(t) ==
    /\ tasks'[t].pc = "fetch"
    /\ \/ tasks[t].pc # "fetch"
       \/ tasks[t].i # tasks'[t].i
       \/ tasks[t].idx # tasks'[t].idx

\* C14: when the loop of exportSequence comes to a clip that is no longer in the
\* catalog the export fails there; it never goes on to register that clip's
\* input.
C14_RemovedClipFailsExport ==
    [][\A t \in Slots :
          ComesToClip(t) =>
              CurrentClips(tasks'[t])[tasks'[t].i + 1].id \in CatalogIds]_vars

CatalogEdit ==
    \/ \E id \in 1..MaxUploads, type \in ClipTypes : UpdateClipType(id, type)
    \/ \E id \in 1..MaxUploads : RemoveClip(id)
    \/ RemoveAllClips

\* C15: updateClipType, removeClip and removeAllClips leave the sequence list as
\* it is (same sequences, same clips in the same order with the type and duration
\* they had when generated), and the list a generateSequences call installs is
\* made of the clips of the catalog as it is at that call.
C15_CatalogEditsKeepSequences ==
    [][/\ CatalogEdit => sequences' = sequences
       /\ GenerateFinish =>
              \A n \in 1..Len(sequences') :
                  Range(sequences'[n].clips) \subseteq Range(availableClips)]_vars

\* C15 witness: a generated sequence holds a clip with its type of generation
\* time after the catalog's clip was retagged, and a clip that was removed.
C15_Witness ==
    /\ sequences # <<>>
    /\ \E k \in 1..Len(sequences[1].clips) :
          \E i \in 1..Len(availableClips) :
              /\ availableClips[i].id = sequences[1].clips[k].id
              /\ availableClips[i].type # sequences[1].clips[k].type
    /\ \E k \in 1..Len(sequences[1].clips) :
          sequences[1].clips[k].id \notin CatalogIds

\* The duration the catalog records for the clip with a given id
CatalogDuration ==
    [id \in CatalogIds |->
        (CHOOSE c \in Range(availableClips) : c.id = id).duration]

RECURSIVE SumOver(_, _)
SumOver(ids, f) ==
    IF ids = {} THEN 0
    ELSE LET x == CHOOSE y \in ids : TRUE
         IN  f[x] + SumOver(ids \ {x}, f)

ClipIds(seq) == {seq.clips[k].id : k \in 1..Len(seq.clips)}

\* C16: the duration of every sequence generateSequences produces is the sum,
\* over the clips it contains, of the durations of those clips, each counted
\* once (no clip occurs twice in a sequence).
C16_DurationIsSumOfClips ==
    \A l \in ProducedLists : \A n \in 1..Len(l) :
        /\ Cardinality(ClipIds(l[n])) = Len(l[n].clips)
        /\ ClipIds(l[n]) \subseteq CatalogIds
        /\ l[n].duration = SumOver(ClipIds(l[n]), CatalogDuration)

\* C16 witness: a sequence of hook 1, selling-points 2 and 3 and cta 4, lasting
\* 1 + 2 + 3 + 4.
C16_Witness ==
    \E n \in 1..Len(newSequences) :
        /\ Len(newSequences[n].clips) = 4
        /\ newSequences[n].duration = 10

\* C17: on a catalog with hooks and ctas but no selling-point, every sequence
\* generateSequences produces is [hook, cta], and a call that has entered its
\* loop completes, leaving min(10, |hooks| * |ctas|) sequences.
C17_NoSellingPoints ==
    /\ [](CountType("selling-point") = 0 =>
             \A l \in ProducedLists : \A n \in 1..Len(l) :
                 /\ Len(l[n].clips) = 2
                 /\ l[n].clips[1].type = "hook"
                 /\ l[n].clips[2].type = "cta")
    /\ (genpc = "loop" /\ CountType("selling-point") = 0)
          ~> (/\ genpc = "idle"
              /\ Len(sequences) = Min(10, CountType("hook") * CountType("cta")))

\* C17 witness: a call on two hooks and two ctas, no selling-point, has
\* completed with four sequences.
C17_Witness ==
    /\ genpc = "idle"
    /\ CountType("selling-point") = 0
    /\ CountType("hook") = 2 /\ CountType("cta") = 2
    /\ Len(sequences) = 4
    /\ \A n \in 1..4 : Len(sequences[n].clips) = 2

\* The File ids of the clips of a sequence, in clip order: what a concatenation
\* of that sequence alone holds
SourcesOf(seq) == [k \in 1..Len(seq.clips) |-> seq.clips[k].file]

\* C18: a batch that has exported the N sequences of the list it was started on
\* and is at zip.generateAsync holds exactly N archive entries, the k-th named
\* by its position k and holding the concatenation of the clips of the k-th
\* sequence of that list, whatever has happened to the sequence list meanwhile.
C18_ArchiveHoldsEachSequence ==
    \A t \in Slots :
        (tasks[t].kind = "batch" /\ tasks[t].pc = "zip") =>
            /\ Len(tasks[t].zip) = Len(tasks[t].seqs)
            /\ \A k \in 1..Len(tasks[t].zip) :
                  /\ tasks[t].zip[k].name = k
                  /\ tasks[t].zip[k].data = SourcesOf(tasks[t].seqs[k])

\* The positions of the clips with a given id (at most one: ids are unique)
PositionsOf(clipId) ==
    {i \in 1..Len(availableClips) : availableClips[i].id = clipId}

Without(i) ==
    SubSeq(availableClips, 1, i - 1)
        \o SubSeq(availableClips, i + 1, Len(availableClips))

\* C19: updateClipType(id, t) gives the clip with that id the type t and changes
\* nothing else; removeClip(id) takes the clip with that id out and keeps the
\* others as they are and in their order; with an id that no clip has both leave
\* the catalog as it was and show no error.
C19_CatalogEditsAreLocal ==
    [][/\ \A id \in 1..(GenMaxClips + 1), type \in ClipTypes :
              UpdateClipType(id, type) =>
                  /\ Len(availableClips') = Len(availableClips)
                  /\ \A i \in 1..Len(availableClips) :
                        IF i \in PositionsOf(id)
                        THEN /\ availableClips'[i].type = type
                             /\ availableClips'[i].id = availableClips[i].id
                             /\ availableClips'[i].duration = availableClips[i].duration
                             /\ availableClips'[i].file = availableClips[i].file
                        ELSE availableClips'[i] = availableClips[i]
                  /\ PositionsOf(id) = {} => availableClips' = availableClips
                  /\ toast' = toast
       /\ \A id \in 1..(GenMaxClips + 1) :
              RemoveClip(id) =>
                  /\ \A i \in PositionsOf(id) : availableClips' = Without(i)
                  /\ PositionsOf(id) = {} => availableClips' = availableClips
                  /\ toast' = toast]_vars

\* C19 witness: the second of four clips was removed and two of the others
\* retagged.
C19_Witness ==
    /\ Len(availableClips) = 3
    /\ availableClips[1].id = 1 /\ availableClips[2].id = 3
    /\ availableClips[3].id = 4
    /\ availableClips[1].type = "cta" /\ availableClips[2].type = "hook"

\* A step of generateSequences: its entry, an iteration of its loop, its end
GenerateStep == GenerateSequences \/ DrawAttempt \/ GenerateFinish

\* A step of a single exportSequence call: its start or a continuation
SingleExportStep ==
    \/ \E s \in 1..MaxSequences : ExportSequence(s)
    \/ \E t \in Slots, ok \in BOOLEAN :
          tasks[t].kind = "single" /\ ExportResume(t, ok)

\* C20: no step of generateSequences changes the catalog; a generateSequences
\* call refused for insufficient input changes neither the catalog nor the
\* sequence list; and no step of a single export, in particular none in which it
\* fails for a missing file or an engine error, changes either.
C20_FailuresKeepCatalogAndList ==
    [][/\ GenerateStep => availableClips' = availableClips
       /\ (GenerateSequences /\ genpc' = "idle") =>
              UNCHANGED <<availableClips, sequences>>
       /\ SingleExportStep => UNCHANGED <<availableClips, sequences>>]_vars

\* C20 witness: a single export has failed on an engine error, then a
\* generateSequences call was refused, and the sequence list is still there.
C20_Witness ==
    /\ exportError = "EngineError"
    /\ toast = "You need at least one hook and one CTA clip"
    /\ NoTaskActive
    /\ sequences # <<>>

SequenceIds == [n \in 1..Len(sequences) |-> sequences[n].id]

PositionsOfSequence(sequenceId) ==
    {n \in 1..Len(sequences) : sequences[n].id = sequenceId}

\* C21: the ids in the sequence list are pairwise distinct in every state; the
\* end of a generateSequences call installs the list that call built in place
\* of the previous one, its i-th sequence with id i; deleteSequence(id) takes
\* out the sequence with that id and keeps the others in their order.
C21_ListReplacedOrShortened ==
    /\ [](\A i, j \in 1..Len(sequences) :
             i # j => sequences[i].id # sequences[j].id)
    /\ [][GenerateFinish =>
              /\ sequences' = newSequences
              /\ Len(sequences') = numSequences
              /\ \A i \in 1..Len(sequences') : sequences'[i].id = i]_vars
    /\ [][\A id \in 1..MaxSequences :
              DeleteSequence(id) =>
                  \A n \in PositionsOfSequence(id) :
                      sequences' = SubSeq(sequences, 1, n - 1)
                                      \o SubSeq(sequences, n + 1, Len(sequences))]_vars

\* C21 witness: a generateSequences call is building a new list while the list
\* of an earlier call, from which the second of four sequences was deleted, is
\* still installed.
C21_Witness ==
    /\ genpc = "loop"
    /\ newSequences # <<>>
    /\ SequenceIds = <<1, 3, 4>>

\* The readiness of the engine as the handlers see it
Readiness ==
    IF ffmpegLoading THEN "initializing"
    ELSE IF ffmpeg # "null" THEN "ready" ELSE "failed"

\* C22: the one initFFmpeg run settles only from the initializing state, to
\* ready or to failed; readiness changes in no other way, a handle once set is
\* kept, and in the failed state there is no handle and no step adds a clip,
\* starts an export or batch or touches the working area.
C22_ReadinessMovesOnce ==
    /\ [][/\ (InitFFmpegLoaded \/ InitFFmpegFailed) => Readiness = "initializing"
          /\ Readiness' # Readiness =>
                 /\ Readiness = "initializing"
                 /\ Readiness' \in {"ready", "failed"}
          /\ ffmpeg # "null" => ffmpeg' = ffmpeg
          /\ Readiness = "failed" =>
                 UNCHANGED <<availableClips, uploads, sequences, tasks, fs,
                             loading>>]_vars
    /\ [](Readiness = "failed" => ffmpeg = "null")
    /\ [](Readiness = "initializing" => ffmpeg = "null")

\* C22 witness: initialization has just failed.
C22_Witness ==
    /\ Readiness = "failed"
    /\ toast = "Failed to initialize video processing"

\* The failure toasts whose text is fixed: they name no sequence, no clip and
\* no kind of error.
GenericFailureToasts ==
    {"Failed to download all sequences", "Failed to export sequence"}

\* C23: when the export of an item of a batch fails, what downloadAllSequences
\* reports is not one of the fixed failure texts: it tells the failing sequence
\* and the kind of error.
C23_BatchFailureIdentified ==
    [][\A t \in Slots, ok \in BOOLEAN :
          (tasks[t].kind = "batch" /\ ItemFails(t, ok)) =>
              toast' \notin GenericFailureToasts]_vars

\* The dedup keys that the draws of one iteration can produce on the catalog
DrawableKeys == {DrawKey(d) : d \in DrawSet}

\* C24: in the loop of generateSequences the target count is at most the number
\* of distinct dedup keys its draws can produce.
C24_TargetWithinDrawableKeys ==
    genpc = "loop" => numSequences <= Cardinality(DrawableKeys)

\* C25: while a downloadAllSequences call is in flight, from its start to the
\* delivery of its archive or its failure, the busy flag is set.
C25_BusyDuringBatch ==
    \A t \in Slots : tasks[t].kind = "batch" => loading

\* C26: every export or batch call in flight comes to its end, whatever the
\* engine calls answer, and whenever no export, batch or generation is in flight
\* the busy flag is clear.
C26_ExportsEndAndBusyClears ==
    /\ \A t \in Slots : (tasks[t].pc # "free") ~> (tasks[t].pc = "free")
    /\ []((NoTaskActive /\ genpc = "idle") => ~loading)

\* C27: in every sequence generateSequences produces, the clips between the
\* hook and the cta are pairwise different clips, and every clip of the sequence
\* is a clip of the catalog the call was made on, with the type (and the other
\* fields) it has there.
C27_DistinctClipsOfCatalog ==
    \A l \in ProducedLists : \A n \in 1..Len(l) :
        /\ \A j, k \in 2..(Len(l[n].clips) - 1) :
              j # k => l[n].clips[j].id # l[n].clips[k].id
        /\ \A k \in 1..Len(l[n].clips) :
              \E i \in 1..Len(availableClips) : availableClips[i] = l[n].clips[k]

\* C27 witness: the list under construction holds a sequence with both
\* selling-points of the catalog.
C27_Witness ==
    /\ CountType("selling-point") = 2
    /\ \E n \in 1..Len(newSequences) :
          /\ Len(newSequences[n].clips) = 4
          /\ newSequences[n].clips[2].id < newSequences[n].clips[3].id

====
